---- MODULE Spec2Model ----
(***************************************************************************)
(* Tab Audio Booster: the content script's AudioBooster (content.js), the  *)
(* page and browser around it, and the messages of its control surface.    *)
(*                                                                         *)
(* Gain factors are held in hundredths (100 stands for 1.0, 300 for 3.0),  *)
(* so that the percentages of the popup and the factors of the content     *)
(* script are both integers.  A gain stage holds the number assigned to    *)
(* it; the single-precision rounding of an AudioParam is not modelled.     *)
(*                                                                         *)
(* All handlers of the page's thread run to completion, so each handler    *)
(* is one action.                                                          *)
(*                                                                         *)
(* Spec is the content script in its page.  SwSpec puts the service        *)
(* worker's tabs.onUpdated listener in front of it: the listener is one    *)
(* action per stretch between its awaits and its timer.                    *)
(***************************************************************************)
EXTENDS Integers, Sequences, FiniteSets, TLC

\* ------------------------------------------------------------ bounds
MaxQueue == 1       \* mutation records pending before the observer callback runs
MaxUpdates == 2     \* tabs.onUpdated events followed
MaxSaves == 2       \* saveSettings calls followed

\* ------------------------------------------------------------ the page
\* The nodes the page may create.  w is a widget (a DIV) that holds the video
\* v1, which holds the audio a1 (nesting depth 2 below w); t is a text node.
Nodes == {"w", "v1", "a1", "t"}

Body == "body"

\* The place each node is appended to when the page appends it.
ParentOf == [n \in Nodes |->
               CASE n = "w"  -> Body
                 [] n = "v1" -> "w"
                 [] n = "a1" -> "v1"
                 [] n = "t"  -> Body]

nodeName == [n \in Nodes |->
               CASE n = "w"  -> "DIV"
                 [] n = "v1" -> "VIDEO"
                 [] n = "a1" -> "AUDIO"
                 [] n = "t"  -> "#text"]

\* Document order (preorder) of the nodes, the order querySelectorAll returns.
DocOrder == <<"w", "v1", "a1", "t">>

\* An element node has querySelectorAll, a text node has not.
hasQuerySelectorAll(n) == nodeName[n] # "#text"

\* The selector 'audio, video'.
IsMedia(n) == nodeName[n] \in {"AUDIO", "VIDEO"}

Media == {n \in Nodes : IsMedia(n)}

\* The factor a new AudioBooster starts with: 1.0.
UnityGain == 100

\* The factors a SET_GAIN message may carry (positive numbers).
GainValues == {50, 300}

\* The kinds of message sent to the tab; PING stands for any other kind.
Kinds == {"SET_GAIN", "GET_STATUS", "PING"}

\* The state a new AudioContext may start in under the autoplay policy.
Policies == {"suspended", "running"}

\* What the popup and the service worker may send to the tab.
Messages ==
  [type : {"SET_GAIN"}, value : GainValues] \cup [type : Kinds \ {"SET_GAIN"}]

NoMessage == [type |-> "none"]

VARIABLES
  pc,               \* where the content script is: "load" (not yet run), "observe",
                    \* "listen" (inside init), "ready" (init returned)
  attached,         \* the nodes currently appended to their parent
  records,          \* addedNodes of the mutation records not yet delivered
  observing,        \* the MutationObserver is installed
  listening,        \* the onMessage listener is installed
  captured,         \* elements some MediaElementAudioSourceNode was created for
  audioContext,     \* this.audioContext: 0 for null, else the context's number
  ctxState,         \* audioContext.state ("none" while there is no context)
  resumeRequested,  \* resume() was called and has not completed
  contextsCreated,  \* number of AudioContexts constructed
  mediaElements,    \* this.mediaElements: element -> chain
  gainValue,        \* this.gainValue
  chainsBuilt,      \* number of chains built (source, gain, compressor)
  rediscovered,     \* elements processMediaElement found in the registry already
  bindTried,        \* elements passed to createMediaElementSource
  bindRetried,      \* elements passed to createMediaElementSource more than once
  req,              \* the message sent to the tab last, and what became of it
  lastSetGain,      \* value of the SET_GAIN message handled last (0: none yet)
  startupBindable,  \* media in the document and not captured when the scan ran
  lastCount,        \* mediaCount of the response sent last (-1: none yet)
  domainSettings,   \* chrome.storage.local's domainSettings: hostname -> record
  updates,          \* the tabs.onUpdated events so far, each with its listener's
                    \* progress
  popups,           \* each popup page: currentDomain, checkbox, slider
  saves             \* the saveSettings calls so far, each with its progress

vars == <<pc, attached, records, observing, listening, captured, audioContext,
          ctxState, resumeRequested, contextsCreated, mediaElements, gainValue,
          chainsBuilt, rediscovered, bindTried, bindRetried, req, lastSetGain,
          startupBindable, lastCount, domainSettings, updates, popups, saves>>

\* What the service worker reads and keeps.
swVars == <<domainSettings, updates>>

\* What the popup pages keep.
popupVars == <<popups, saves>>

\* ------------------------------------------------------------ DOM
RECURSIVE InDocument(_, _)
InDocument(att, n) ==
  /\ n \in att
  /\ \/ ParentOf[n] = Body
     \/ InDocument(att, ParentOf[n])

\* m is a proper descendant of n in the current tree.
RECURSIVE IsDescendant(_, _, _)
IsDescendant(att, m, n) ==
  /\ m \in att
  /\ ParentOf[m] # Body
  /\ \/ ParentOf[m] = n
     \/ IsDescendant(att, ParentOf[m], n)

\* A subtree query that looks at the node's children only.
querySelectorAll_children(att, n) ==
  SelectSeq(DocOrder, LAMBDA m : IsMedia(m) /\ m \in att /\ ParentOf[m] = n)

\* node.querySelectorAll('audio, video'), in document order.
querySelectorAll(att, n) ==
  SelectSeq(DocOrder, LAMBDA m : IsMedia(m) /\ IsDescendant(att, m, n))

\* A startup scan with the selector 'video'.
documentQuerySelectorAll_videoOnly(att) ==
  SelectSeq(DocOrder, LAMBDA m : nodeName[m] = "VIDEO" /\ InDocument(att, m))

\* document.querySelectorAll('audio, video'), in document order.
documentQuerySelectorAll(att) ==
  SelectSeq(DocOrder, LAMBDA m : IsMedia(m) /\ InDocument(att, m))

\* ------------------------------------------------------------ AudioBooster
\* The fields of the AudioBooster and the platform state its methods touch.
Core ==
  [audioContext |-> audioContext, ctxState |-> ctxState,
   resumeRequested |-> resumeRequested, contextsCreated |-> contextsCreated,
   mediaElements |-> mediaElements, gainValue |-> gainValue,
   chainsBuilt |-> chainsBuilt, rediscovered |-> rediscovered,
   bindTried |-> bindTried, bindRetried |-> bindRetried, captured |-> captured]

SetCore(S) ==
  /\ audioContext' = S.audioContext
  /\ ctxState' = S.ctxState
  /\ resumeRequested' = S.resumeRequested
  /\ contextsCreated' = S.contextsCreated
  /\ mediaElements' = S.mediaElements
  /\ gainValue' = S.gainValue
  /\ chainsBuilt' = S.chainsBuilt
  /\ rediscovered' = S.rediscovered
  /\ bindTried' = S.bindTried
  /\ bindRetried' = S.bindRetried
  /\ captured' = S.captured

\* A registry whose lookup never finds the element.
has_never(m, element) == FALSE

\* Map.has
has(m, element) == element \in DOMAIN m

\* A set that starts the map afresh with the one entry.
set_fresh(m, element, chain) == [x \in {element} |-> chain]

\* Map.set
set(m, element, chain) ==
  [x \in (DOMAIN m) \cup {element} |-> IF x = element THEN chain ELSE m[x]]

\* A getAudioContext that constructs a context on every call.
getAudioContext_always(S, policy) ==
  [S EXCEPT !.audioContext = S.contextsCreated + 1,
            !.contextsCreated = @ + 1,
            !.ctxState = policy]

\* A getAudioContext whose new context puts the gain back to 1.0.
getAudioContext_resetsGain(S, policy) ==
  IF S.audioContext = 0
    THEN [S EXCEPT !.audioContext = S.contextsCreated + 1,
                   !.contextsCreated = @ + 1,
                   !.ctxState = policy,
                   !.gainValue = UnityGain]
    ELSE S

getAudioContext(S, policy) ==
  IF S.audioContext = 0
    THEN [S EXCEPT !.audioContext = S.contextsCreated + 1,
                   !.contextsCreated = @ + 1,
                   !.ctxState = policy]
    ELSE S

\* A new gain stage left at the default of a GainNode.
InitialGain_unity(S) == UnityGain

\* gainNode.gain.value = this.gainValue
InitialGain(S) == S.gainValue

\* A processMediaElement that stores the entry after the try block, bound or not.
processMediaElement_setsAfterCatch(S, element, policy) ==
  IF has(S.mediaElements, element)
    THEN [S EXCEPT !.rediscovered = @ \cup {element}]
    ELSE LET S1 == getAudioContext(S, policy)
             S2 == [S1 EXCEPT !.bindTried = @ \cup {element},
                              !.bindRetried = @ \cup ({element} \cap S1.bindTried)]
         IN [S2 EXCEPT
               !.captured = @ \cup {element},
               !.chainsBuilt = @ + 1,
               !.mediaElements =
                  set(@, element,
                      [id |-> S2.chainsBuilt + 1,
                       context |-> S2.audioContext,
                       gain |-> InitialGain(S2)])]

processMediaElement(S, element, policy) ==
  IF has(S.mediaElements, element)
    THEN [S EXCEPT !.rediscovered = @ \cup {element}]
    ELSE LET S1 == getAudioContext(S, policy)
             S2 == [S1 EXCEPT !.bindTried = @ \cup {element},
                              !.bindRetried = @ \cup ({element} \cap S1.bindTried)]
         IN IF element \in S2.captured
              THEN S2    \* createMediaElementSource throws; caught and logged
              ELSE [S2 EXCEPT
                      !.captured = @ \cup {element},
                      !.chainsBuilt = @ + 1,
                      !.mediaElements =
                         set(@, element,
                             [id |-> S2.chainsBuilt + 1,
                              context |-> S2.audioContext,
                              gain |-> InitialGain(S2)])]

\* A forEach that a failed bind ends: the exception leaves processMediaElement.
RECURSIVE forEachProcess_stopsAtFailure(_, _, _)
forEachProcess_stopsAtFailure(S, elements, policy) ==
  IF elements = <<>>
    THEN S
    ELSE IF ~has(S.mediaElements, Head(elements)) /\ Head(elements) \in S.captured
      THEN processMediaElement(S, Head(elements), policy)
      ELSE forEachProcess_stopsAtFailure(
             processMediaElement(S, Head(elements), policy), Tail(elements), policy)

\* elements.forEach(element => this.processMediaElement(element))
RECURSIVE forEachProcess(_, _, _)
forEachProcess(S, elements, policy) ==
  IF elements = <<>>
    THEN S
    ELSE forEachProcess(processMediaElement(S, Head(elements), policy),
                        Tail(elements), policy)

processExistingMedia(S, att, policy) ==
  forEachProcess(S, documentQuerySelectorAll(att), policy)

\* The observer callback's body for one added node.
processAddedNode(S, att, node, policy) ==
  LET S1 == IF nodeName[node] = "AUDIO" \/ nodeName[node] = "VIDEO"
              THEN processMediaElement(S, node, policy)
              ELSE S
  IN IF hasQuerySelectorAll(node)
       THEN forEachProcess(S1, querySelectorAll(att, node), policy)
       ELSE S1

RECURSIVE forEachAddedNode(_, _, _, _)
forEachAddedNode(S, att, nodes, policy) ==
  IF nodes = <<>>
    THEN S
    ELSE forEachAddedNode(processAddedNode(S, att, Head(nodes), policy),
                          att, Tail(nodes), policy)

\* A setGain that returns once it has asked a suspended context to resume.
setGain_returnsAfterResume(S, value) ==
  LET S1 == [S EXCEPT !.gainValue = value]
  IN IF S1.audioContext # 0 /\ S1.ctxState = "suspended"
       THEN [S1 EXCEPT !.resumeRequested = TRUE]
       ELSE [S1 EXCEPT !.mediaElements =
               [e \in DOMAIN S1.mediaElements |->
                  [S1.mediaElements[e] EXCEPT !.gain = value]]]

\* A setGain that never wakes the context.
setGain_noResume(S, value) ==
  LET S1 == [S EXCEPT !.gainValue = value]
  IN [S1 EXCEPT !.mediaElements =
        [e \in DOMAIN S1.mediaElements |->
           [S1.mediaElements[e] EXCEPT !.gain = value]]]

\* A setGain that stores the value and leaves the existing chains alone.
setGain_storeOnly(S, value) ==
  LET S1 == [S EXCEPT !.gainValue = value]
  IN IF S1.audioContext # 0 /\ S1.ctxState = "suspended"
       THEN [S1 EXCEPT !.resumeRequested = TRUE]
       ELSE S1

\* A setGain that sets the chains and does not keep the value.
setGain_chainsOnly(S, value) ==
  LET S2 == IF S.audioContext # 0 /\ S.ctxState = "suspended"
              THEN [S EXCEPT !.resumeRequested = TRUE]
              ELSE S
  IN [S2 EXCEPT !.mediaElements =
        [e \in DOMAIN S2.mediaElements |->
           [S2.mediaElements[e] EXCEPT !.gain = value]]]

setGain(S, value) ==
  LET S1 == [S EXCEPT !.gainValue = value]
      S2 == IF S1.audioContext # 0 /\ S1.ctxState = "suspended"
              THEN [S1 EXCEPT !.resumeRequested = TRUE]
              ELSE S1
  IN [S2 EXCEPT !.mediaElements =
        [e \in DOMAIN S2.mediaElements |->
           [S2.mediaElements[e] EXCEPT !.gain = value]]]

\* A count of the elements ever passed to the bind step, bound or not.
getMediaCount_tried(S) == Cardinality(S.bindTried)

getMediaCount(S) == Cardinality(DOMAIN S.mediaElements)

\* What one run of the onMessage listener yields: the AudioBooster afterwards, the
\* arguments of the calls of sendResponse it made, and the value it returned.
\* The SET_GAIN branch.
onSetGain(S, message) ==
  LET S1 == setGain(S, message.value)
  IN [core |-> S1,
      responses |-> <<[success |-> TRUE, mediaCount |-> getMediaCount(S1)]>>]

\* A GET_STATUS branch that wakes the pipeline before reporting.
onGetStatus_resumes(S) ==
  LET S1 == IF S.audioContext # 0 /\ S.ctxState = "suspended"
              THEN [S EXCEPT !.resumeRequested = TRUE]
              ELSE S
  IN [core |-> S1,
      responses |-> <<[gain |-> S1.gainValue, mediaCount |-> getMediaCount(S1)]>>]

\* A GET_STATUS branch that answers only when there is media to report.
onGetStatus_silentWhenEmpty(S) ==
  [core |-> S,
   responses |-> IF getMediaCount(S) = 0
                   THEN <<>>
                   ELSE <<[gain |-> S.gainValue, mediaCount |-> getMediaCount(S)]>>]

\* The GET_STATUS branch.
onGetStatus(S) ==
  [core |-> S,
   responses |-> <<[gain |-> S.gainValue, mediaCount |-> getMediaCount(S)]>>]

\* The listener: no branch for any other type, and "return true" for every type.
onMessage(S, message) ==
  LET r == IF message.type = "SET_GAIN"
             THEN onSetGain(S, message)
             ELSE IF message.type = "GET_STATUS"
               THEN onGetStatus(S)
               ELSE [core |-> S, responses |-> <<>>]
  IN [core |-> r.core, responses |-> r.responses, returned |-> TRUE]

\* ------------------------------------------------------------ initial state
ContentInit ==
  /\ pc = "load"
  /\ attached = {}
  /\ records = <<>>
  /\ observing = FALSE
  /\ listening = FALSE
  /\ captured = {}
  /\ audioContext = 0
  /\ ctxState = "none"
  /\ resumeRequested = FALSE
  /\ contextsCreated = 0
  /\ mediaElements = <<>>
  /\ gainValue = UnityGain
  /\ chainsBuilt = 0
  /\ rediscovered = {}
  /\ bindTried = {}
  /\ bindRetried = {}
  /\ req = [message |-> NoMessage, state |-> "none", responses |-> <<>>,
            returned |-> FALSE]
  /\ lastSetGain = 0
  /\ startupBindable = {}
  /\ lastCount = -1

\* The content script alone: nothing is stored and no tab event is followed.
Init ==
  /\ ContentInit
  /\ domainSettings = <<>>
  /\ updates = <<>>
  /\ popups = <<>>
  /\ saves = <<>>

coreVars == <<captured, audioContext, ctxState, resumeRequested, contextsCreated,
              mediaElements, gainValue, chainsBuilt, rediscovered, bindTried,
              bindRetried>>

\* ------------------------------------------------------------ the page's scripts
\* parent.appendChild(n); a record is queued when n lands in the observed document.
PageAppend(n) ==
  /\ pc \in {"load", "ready"}
  /\ n \notin attached
  /\ attached' = attached \cup {n}
  /\ IF observing /\ InDocument(attached', n)
       THEN /\ Len(records) < MaxQueue
            /\ records' = Append(records, n)
       ELSE records' = records
  /\ UNCHANGED <<pc, observing, listening, req, lastSetGain, lastCount, startupBindable>>
  /\ UNCHANGED swVars
  /\ UNCHANGED popupVars
  /\ UNCHANGED coreVars

\* n.remove(); its record has no added nodes, so the callback does nothing for it.
PageRemove(n) ==
  /\ pc \in {"load", "ready"}
  /\ n \in attached
  /\ attached' = attached \ {n}
  /\ UNCHANGED <<pc, records, observing, listening, req, lastSetGain, lastCount, startupBindable>>
  /\ UNCHANGED swVars
  /\ UNCHANGED popupVars
  /\ UNCHANGED coreVars

\* The page's own audio graph takes the element (its createMediaElementSource).
PageCapture(e) ==
  /\ pc \in {"load", "ready"}
  /\ IsMedia(e)
  /\ e \notin captured
  /\ captured' = captured \cup {e}
  /\ UNCHANGED <<pc, attached, records, observing, listening, audioContext, ctxState,
                 resumeRequested, contextsCreated, mediaElements, gainValue,
                 chainsBuilt, rediscovered, bindTried, bindRetried, req,
                 lastSetGain, lastCount, startupBindable>>
  /\ UNCHANGED swVars
  /\ UNCHANGED popupVars

\* ------------------------------------------------------------ init()
ProcessExistingMedia ==
  /\ pc = "load"
  /\ \E policy \in Policies :
       SetCore(processExistingMedia(Core, attached, policy))
  /\ startupBindable' = {e \in Media : InDocument(attached, e) /\ e \notin captured}
  /\ pc' = "observe"
  /\ UNCHANGED <<attached, records, observing, listening, req, lastSetGain, lastCount>>
  /\ UNCHANGED swVars
  /\ UNCHANGED popupVars

ObserveNewMedia ==
  /\ pc = "observe"
  /\ observing' = TRUE
  /\ pc' = "listen"
  /\ UNCHANGED <<attached, records, listening, req, lastSetGain, lastCount, startupBindable>>
  /\ UNCHANGED swVars
  /\ UNCHANGED popupVars
  /\ UNCHANGED coreVars

SetupMessageListener ==
  /\ pc = "listen"
  /\ listening' = TRUE
  /\ pc' = "ready"
  /\ UNCHANGED <<attached, records, observing, req, lastSetGain, lastCount, startupBindable>>
  /\ UNCHANGED swVars
  /\ UNCHANGED popupVars
  /\ UNCHANGED coreVars

\* ------------------------------------------------------------ the observer callback
ObserverCallback ==
  /\ pc = "ready"
  /\ records # <<>>
  /\ \E policy \in Policies :
       SetCore(forEachAddedNode(Core, attached, records, policy))
  /\ records' = <<>>
  /\ UNCHANGED <<pc, attached, observing, listening, req, lastSetGain, lastCount, startupBindable>>
  /\ UNCHANGED swVars
  /\ UNCHANGED popupVars

\* ------------------------------------------------------------ messages
\* chrome.tabs.sendMessage by the popup or the service worker.  req follows one
\* message at a time: the next one is followed once this one was delivered.
Send(message) ==
  /\ req.state # "sent"
  /\ req' = [message |-> message, state |-> "sent", responses |-> <<>>,
             returned |-> FALSE]
  /\ UNCHANGED <<pc, attached, records, observing, listening, lastSetGain, lastCount,
                 startupBindable>>
  /\ UNCHANGED swVars
  /\ UNCHANGED popupVars
  /\ UNCHANGED coreVars

\* The message reaches a tab in which no listener is installed: sendMessage rejects.
NoReceiver ==
  /\ pc = "load"
  /\ ~listening
  /\ req.state = "sent"
  /\ req' = [req EXCEPT !.state = "noReceiver"]
  /\ UNCHANGED <<pc, attached, records, observing, listening, lastSetGain, lastCount,
                 startupBindable>>
  /\ UNCHANGED swVars
  /\ UNCHANGED popupVars
  /\ UNCHANGED coreVars

\* The listener runs for the message, as a task of its own: the records pending
\* were delivered at the end of the task that made them.
OnMessage ==
  /\ pc = "ready"
  /\ listening
  /\ records = <<>>
  /\ req.state = "sent"
  /\ LET r == onMessage(Core, req.message)
     IN /\ SetCore(r.core)
        /\ req' = [req EXCEPT !.state = "handled",
                              !.responses = r.responses,
                              !.returned = r.returned]
        /\ lastCount' = IF r.responses # <<>>
                          THEN r.responses[1].mediaCount
                          ELSE lastCount
  /\ lastSetGain' = IF req.message.type = "SET_GAIN"
                      THEN req.message.value
                      ELSE lastSetGain
  /\ UNCHANGED <<pc, attached, records, observing, listening, startupBindable>>
  /\ UNCHANGED swVars
  /\ UNCHANGED popupVars

\* ------------------------------------------------------------ the browser
\* The promise of audioContext.resume() settles: the context runs.
ContextResumed ==
  /\ resumeRequested
  /\ ctxState' = "running"
  /\ resumeRequested' = FALSE
  /\ UNCHANGED <<pc, attached, records, observing, listening, captured, audioContext,
                 contextsCreated, mediaElements, gainValue, chainsBuilt, rediscovered,
                 bindTried, bindRetried, req, lastSetGain, lastCount, startupBindable>>
  /\ UNCHANGED swVars
  /\ UNCHANGED popupVars

Next ==
  \/ \E n \in Nodes : PageAppend(n)
  \/ \E n \in Nodes : PageRemove(n)
  \/ \E e \in Nodes : PageCapture(e)
  \/ ProcessExistingMedia
  \/ ObserveNewMedia
  \/ SetupMessageListener
  \/ ObserverCallback
  \/ \E message \in Messages : Send(message)
  \/ NoReceiver
  \/ OnMessage
  \/ ContextResumed

Spec == Init /\ [][Next]_vars

\* The browser settles the promise of a resume() that was called.
FairSpec == Spec /\ WF_vars(ContextResumed)

TypeOK ==
  /\ pc \in {"load", "observe", "listen", "ready"}
  /\ attached \subseteq Nodes
  /\ captured \subseteq Media
  /\ DOMAIN mediaElements \subseteq Media
  /\ gainValue \in GainValues \cup {UnityGain}

\* ------------------------------------------------------------ the service worker
\* tab.url of an updated tab: "" when the event carries none, "a.example" one
\* that new URL() rejects.
Urls ==
  {"https://a.example/watch", "https://b.example/", "http://constructor/",
   "a.example", ""}

\* new URL(url).hostname, for the urls it accepts.
hostname ==
  [url \in {"https://a.example/watch", "https://b.example/", "http://constructor/"} |->
     CASE url = "https://a.example/watch" -> "a.example"
       [] url = "https://b.example/" -> "b.example"
       [] url = "http://constructor/" -> "constructor"]

\* changeInfo.status
Statuses == {"loading", "complete"}

\* The percentages the popup's slider stores.
Volumes == {100, 300}

\* What storage may hold when the tab loads: no record, or one for a.example.
Storages ==
  {<<>>} \cup {[d \in {"a.example"} |-> [volume |-> v]] : v \in Volumes}

\* The property names every object inherits from Object.prototype, among the
\* hostnames above.
ObjectPrototype == {"constructor"}

Undefined == [undefined |-> TRUE]

\* obj[key] of a plain object: its own property, else the inherited one.
Get(obj, key) ==
  IF key \in DOMAIN obj THEN obj[key]
  ELSE IF key \in ObjectPrototype THEN [inherited |-> key]
  ELSE Undefined

\* if (x): an object is truthy, undefined is not.
Truthy(x) == x # Undefined

\* A number a message carries: a gain in hundredths, or NaN.
Num(n) == [isNaN |-> FALSE, n |-> n]

NaN == [isNaN |-> TRUE, n |-> 0]

\* saved.volume / 100, as a gain in hundredths; undefined / 100 is NaN.
VolumeToGain(saved) ==
  IF "volume" \in DOMAIN saved
    THEN Num((saved.volume * UnityGain) \div 100)
    ELSE NaN

\* chrome.tabs.onUpdated fires: the listener runs up to its first await.
TabUpdated(status, url) ==
  /\ Len(updates) < MaxUpdates
  /\ updates' = Append(updates,
       [status |-> status, url |-> url,
        stage |-> IF status # "complete" \/ url = "" THEN "returned"
                  ELSE IF url \notin DOMAIN hostname THEN "returned"
                  ELSE "get",
        gainValue |-> <<>>, sends |-> 0])
  /\ UNCHANGED <<pc, attached, records, observing, listening, req, lastSetGain,
                 startupBindable, lastCount, domainSettings>>
  /\ UNCHANGED coreVars
  /\ UNCHANGED popupVars

\* chrome.storage.local.get settles: the listener looks the hostname up and
\* sets the timer, or returns.
StorageGet(i) ==
  /\ i \in DOMAIN updates
  /\ updates[i].stage = "get"
  /\ LET domain == hostname[updates[i].url]
         saved == Get(domainSettings, domain)
     IN updates' =
          IF Truthy(saved)
            THEN [updates EXCEPT ![i].stage = "timer",
                                 ![i].gainValue = <<VolumeToGain(saved)>>]
            ELSE [updates EXCEPT ![i].stage = "returned"]
  /\ UNCHANGED <<pc, attached, records, observing, listening, req, lastSetGain,
                 startupBindable, lastCount, domainSettings>>
  /\ UNCHANGED coreVars
  /\ UNCHANGED popupVars

\* The 500 ms timer fires: chrome.tabs.sendMessage.  A message whose value is
\* no number is counted as sent and followed no further.
TimerFires(i) ==
  /\ i \in DOMAIN updates
  /\ updates[i].stage = "timer"
  /\ updates' = [updates EXCEPT ![i].stage = "sent", ![i].sends = @ + 1]
  /\ LET value == updates[i].gainValue[1]
     IN IF value.isNaN
          THEN req' = req
          ELSE /\ req.state # "sent"
               /\ req' = [message |-> [type |-> "SET_GAIN", value |-> value.n],
                          state |-> "sent", responses |-> <<>>,
                          returned |-> FALSE]
  /\ UNCHANGED <<pc, attached, records, observing, listening, lastSetGain,
                 startupBindable, lastCount, domainSettings>>
  /\ UNCHANGED coreVars
  /\ UNCHANGED popupVars

\* The service worker and the content script of the tab it updates.
SwInit ==
  /\ ContentInit
  /\ domainSettings \in Storages
  /\ updates = <<>>
  /\ popups = <<>>
  /\ saves = <<>>

SwNext ==
  \/ \E status \in Statuses, url \in Urls : TabUpdated(status, url)
  \/ \E i \in 1..MaxUpdates : StorageGet(i)
  \/ \E i \in 1..MaxUpdates : TimerFires(i)
  \/ \E n \in Nodes : PageAppend(n)
  \/ ProcessExistingMedia
  \/ ObserveNewMedia
  \/ SetupMessageListener
  \/ ObserverCallback
  \/ NoReceiver
  \/ OnMessage

SwSpec == SwInit /\ [][SwNext]_vars

\* ------------------------------------------------------------ the popup
\* The popup pages open at once, and the hostname of the tab each is opened on.
Popups == {"p1", "p2"}

tabDomain == [p \in Popups |-> IF p = "p1" THEN "a.example" ELSE "b.example"]

SavedDomains == {tabDomain[p] : p \in Popups}

\* What storage may hold when the popups open.
PopupStorages == UNION {[D -> [volume : Volumes]] : D \in SUBSET SavedDomains}

\* domainSettings[key] = value
Put(obj, key, value) ==
  [k \in (DOMAIN obj) \cup {key} |-> IF k = key THEN value ELSE obj[k]]

\* delete domainSettings[key]
Delete(obj, key) == [k \in (DOMAIN obj) \ {key} |-> obj[k]]

\* What saveSettings makes of the object it read, for the popup's controls.
saveSettings(read, popup) ==
  IF popup.checked
    THEN Put(read, popup.currentDomain, [volume |-> popup.slider])
    ELSE Delete(read, popup.currentDomain)

\* loadSavedSettings, at the point its storage read settles.
LoadSavedSettings(p) ==
  /\ ~popups[p].loaded
  /\ LET domain == tabDomain[p]
         saved == Get(domainSettings, domain)
     IN popups' =
          IF Truthy(saved)
            THEN [popups EXCEPT ![p].loaded = TRUE,
                                ![p].currentDomain = domain,
                                ![p].slider = saved.volume,
                                ![p].checked = TRUE]
            ELSE [popups EXCEPT ![p].loaded = TRUE,
                                ![p].currentDomain = domain]
  /\ UNCHANGED <<pc, attached, records, observing, listening, req, lastSetGain,
                 startupBindable, lastCount, domainSettings, updates, saves>>
  /\ UNCHANGED coreVars

\* saveSettings is called: it runs up to its storage read.
Called(p) == Append(saves, [popup |-> p, stage |-> "get", domainSettings |-> <<>>])

\* The slider's input listener; its setGain(value) is the Send of Spec.
SliderInput(p, value) ==
  /\ popups[p].loaded
  /\ popups' = [popups EXCEPT ![p].slider = value]
  /\ IF popups[p].checked
       THEN /\ Len(saves) < MaxSaves
            /\ saves' = Called(p)
       ELSE saves' = saves
  /\ UNCHANGED <<pc, attached, records, observing, listening, req, lastSetGain,
                 startupBindable, lastCount, domainSettings, updates>>
  /\ UNCHANGED coreVars

\* The checkbox's change listener.
RememberChange(p) ==
  /\ popups[p].loaded
  /\ Len(saves) < MaxSaves
  /\ popups' = [popups EXCEPT ![p].checked = ~@]
  /\ saves' = Called(p)
  /\ UNCHANGED <<pc, attached, records, observing, listening, req, lastSetGain,
                 startupBindable, lastCount, domainSettings, updates>>
  /\ UNCHANGED coreVars

\* saveSettings after its storage read settled: it changes the object it read
\* and calls chrome.storage.local.set.
SaveGet(i) ==
  /\ i \in DOMAIN saves
  /\ saves[i].stage = "get"
  /\ saves' = [saves EXCEPT
       ![i].stage = "set",
       ![i].domainSettings = saveSettings(domainSettings, popups[saves[i].popup])]
  /\ UNCHANGED <<pc, attached, records, observing, listening, req, lastSetGain,
                 startupBindable, lastCount, domainSettings, updates, popups>>
  /\ UNCHANGED coreVars

\* chrome.storage.local.set stores the object and settles.
SaveSet(i) ==
  /\ i \in DOMAIN saves
  /\ saves[i].stage = "set"
  /\ domainSettings' = saves[i].domainSettings
  /\ saves' = [saves EXCEPT ![i].stage = "done"]
  /\ UNCHANGED <<pc, attached, records, observing, listening, req, lastSetGain,
                 startupBindable, lastCount, updates, popups>>
  /\ UNCHANGED coreVars

\* The popups over the storage they share; the controls start as the popup's
\* page has them.
PopupInit ==
  /\ ContentInit
  /\ domainSettings \in PopupStorages
  /\ updates = <<>>
  /\ popups \in [Popups -> [currentDomain : {""}, loaded : {FALSE},
                            checked : BOOLEAN, slider : Volumes]]
  /\ saves = <<>>

PopupNext ==
  \/ \E p \in Popups : LoadSavedSettings(p)
  \/ \E p \in Popups, value \in Volumes : SliderInput(p, value)
  \/ \E p \in Popups : RememberChange(p)
  \/ \E i \in 1..MaxSaves : SaveGet(i)
  \/ \E i \in 1..MaxSaves : SaveSet(i)

PopupSpec == PopupInit /\ [][PopupNext]_vars

\* ============================================================ properties
Registered == DOMAIN mediaElements

\* This step is the listener handling the message in req.
Handling(type) ==
  /\ req.state = "sent"
  /\ req'.state = "handled"
  /\ req.message.type = type

\* req holds a handled message of this type.
Handled(type) ==
  /\ req.state = "handled"
  /\ req.message.type = type

\* The gain a chain built now must start with: the last SET_GAIN's, else 1.0.
LastRequestedGain == IF lastSetGain = 0 THEN UnityGain ELSE lastSetGain

\* C1: however often an element is presented to discovery (startup scan, its own
\* insertion record, an ancestor's), a registered element stays registered with
\* the chain of its first discovery: the entry is never replaced, and no second
\* source is ever bound for it.
C1_RegisteredOnceKeepsFirstChain ==
  [][/\ \A e \in Media :
       e \in Registered =>
         /\ e \in DOMAIN mediaElements'
         /\ mediaElements'[e].id = mediaElements[e].id
         /\ mediaElements'[e].context = mediaElements[e].context
         /\ e \in bindTried' /\ e \notin bindRetried'
         /\ mediaElements[e].id <= chainsBuilt
         /\ \A f \in Registered \ {e} : mediaElements[f].id # mediaElements[e].id
     /\ \A e \in Media :
          \* the first discovery of an element no other graph holds registers it
          (e \in bindTried' /\ e \notin bindTried /\ e \notin captured) =>
            e \in DOMAIN mediaElements']_vars

\* C1 witness: both media elements are registered, and discovery presented each
\* of them again afterwards.
C1_Witness ==
  /\ Registered = Media
  /\ rediscovered = Media
  /\ chainsBuilt = 2

\* C2: when the listener has handled SET_GAIN(g), the gain stage of every chain
\* in the registry equals g, whatever the gains were and whether or not the
\* context is suspended.
C2_SetGainReachesEveryChain ==
  [][Handling("SET_GAIN") =>
       \A e \in DOMAIN mediaElements' :
         mediaElements'[e].gain = req.message.value]_vars

\* C2 witness: SET_GAIN(0.5) was handled with two chains registered and the
\* context still suspended, and both chains are at 0.5.
C2_Witness ==
  /\ Handled("SET_GAIN")
  /\ req.message.value = 50
  /\ ctxState = "suspended"
  /\ Registered = Media
  /\ \A e \in Registered : mediaElements[e].gain = 50

\* C3: a chain built in a step starts at the value of the last handled SET_GAIN,
\* and at 1.0 when no SET_GAIN was handled before it.
C3_NewChainInheritsGain ==
  [][\A e \in Media :
       (e \notin Registered /\ e \in DOMAIN mediaElements') =>
         mediaElements'[e].gain = LastRequestedGain]_vars

\* C3 witness: SET_GAIN(3.0) was the last message, it reported fewer elements
\* than are registered now, and the chain built since is at 3.0.
C3_Witness ==
  /\ Handled("SET_GAIN")
  /\ req.message.value = 300
  /\ req.responses[1].mediaCount < Cardinality(Registered)
  /\ \E e \in Registered :
       /\ mediaElements[e].id = chainsBuilt
       /\ mediaElements[e].gain = 300

\* C4: handling GET_STATUS leaves the gain state, the registry with every
\* chain's gain, and the context (its existence, its state, a pending resume)
\* as they were.
C4_GetStatusChangesNothing ==
  [][Handling("GET_STATUS") =>
       UNCHANGED <<gainValue, mediaElements, audioContext, ctxState,
                   resumeRequested, contextsCreated, chainsBuilt, captured>>]_vars

\* C4 witness: GET_STATUS was handled with a chain registered at 3.0 while the
\* context is suspended and no resume is pending.
C4_Witness ==
  /\ Handled("GET_STATUS")
  /\ gainValue = 300
  /\ Registered # {}
  /\ ctxState = "suspended"
  /\ ~resumeRequested

\* C5: a SET_GAIN or GET_STATUS message the listener handled got exactly one
\* call of sendResponse.
C5_ExactlyOneResponse ==
  (Handled("SET_GAIN") \/ Handled("GET_STATUS")) => Len(req.responses) = 1

\* C5 witness: GET_STATUS was handled, with nothing registered, after a
\* discovery that failed to bind, and has its one response.
C5_Witness ==
  /\ Handled("GET_STATUS")
  /\ Registered = {}
  /\ bindTried # {}
  /\ Len(req.responses) = 1

\* C6: a handled message of any other type has its response channel completed:
\* sendResponse was called, or the listener did not ask to keep the channel
\* open (it did not return true).
C6_UnknownKindCompletes ==
  Handled("PING") => (Len(req.responses) > 0 \/ ~req.returned)

\* C7: the one response to SET_GAIN(value) is {success: true, mediaCount: n},
\* n being the size of the registry after the update, which is the number of
\* chains whose gain stage now equals value.
C7_SetGainResponse ==
  [][Handling("SET_GAIN") =>
       /\ req'.responses =
            <<[success |-> TRUE, mediaCount |-> Cardinality(DOMAIN mediaElements')]>>
       /\ Cardinality({e \in DOMAIN mediaElements' :
                         mediaElements'[e].gain = req.message.value})
            = req'.responses[1].mediaCount]_vars

\* C7 witness: SET_GAIN(3.0) answered mediaCount 1 while a second element had
\* been passed to the bind step and failed.
C7_Witness ==
  /\ Handled("SET_GAIN")
  /\ req.message.value = 300
  /\ req.responses = <<[success |-> TRUE, mediaCount |-> 1]>>
  /\ Cardinality(bindTried) = 2
  /\ Cardinality(Registered) = 1

\* C8: the one response to GET_STATUS is {gain, mediaCount}: gain is the value
\* of the SET_GAIN handled last (1.0 if none was), mediaCount the size of the
\* registry.
C8_GetStatusResponse ==
  [][Handling("GET_STATUS") =>
       req'.responses =
         <<[gain |-> LastRequestedGain, mediaCount |-> Cardinality(Registered)]>>]_vars

\* C8 witness: GET_STATUS answered {gain: 0.5, mediaCount: 2}.
C8_Witness ==
  /\ Handled("GET_STATUS")
  /\ lastSetGain = 50
  /\ req.responses = <<[gain |-> 50, mediaCount |-> 2]>>

\* The media the records present: an added node that is one, and every one
\* among an added node's descendants, at any depth.
NotifiedMedia(att, recs) ==
  {m \in Media : \E i \in 1..Len(recs) : recs[i] = m \/ IsDescendant(att, m, recs[i])}

\* This step is the observer callback handling the pending records.
CallbackStep == records # <<>> /\ records' = <<>>

\* Another audio graph holds the element: binding a source to it fails.
Unbindable(e) == e \in captured /\ e \notin Registered

\* C9 as stated: when the callback has handled the records, every audio or
\* video element they present (the added node, its descendants) is registered.
C9_EveryNotifiedMediaRegistered ==
  [][CallbackStep =>
       NotifiedMedia(attached, records) \subseteq DOMAIN mediaElements']_vars

\* C9 amended: when the callback has handled the records, every bindable audio
\* or video element they present (the added node itself, its descendants at any
\* depth) is registered; a record of a node without querySelectorAll changes
\* nothing.
C9_EveryBindableNotifiedMediaRegistered ==
  [][CallbackStep =>
       /\ \A m \in NotifiedMedia(attached, records) :
            Unbindable(m) \/ m \in DOMAIN mediaElements'
       /\ (\A i \in 1..Len(records) : nodeName[records[i]] = "#text") =>
            UNCHANGED coreVars]_vars

\* C9 witness: the widget is in the document with the video and the nested
\* audio below it, both registered by insertion records alone (nothing was in
\* the document at startup), neither ever presented twice.
C9_Witness ==
  /\ pc = "ready"
  /\ records = <<>>
  /\ {"w", "v1", "a1"} \subseteq attached
  /\ startupBindable = {}
  /\ Registered = Media
  /\ rediscovered = {}
  /\ bindRetried = {}

\* C10: once the startup scan has run, every bindable media element that was in
\* the document is registered; until a SET_GAIN is handled every chain is at 1.0;
\* no message is handled before init has returned; so a GET_STATUS handled
\* before any SET_GAIN reports gain 1.0 and at least the startup elements.
C10_StartupScanBeforeRequests ==
  /\ pc # "load" => startupBindable \subseteq Registered
  /\ lastSetGain = 0 => \A e \in Registered : mediaElements[e].gain = UnityGain
  /\ req.state = "handled" => pc = "ready"
  /\ (Handled("GET_STATUS") /\ lastSetGain = 0) =>
       /\ req.responses[1].gain = UnityGain
       /\ req.responses[1].mediaCount >= Cardinality(startupBindable)

\* C10 witness: the page had the video and the nested audio in the document at
\* startup, and the first message, a GET_STATUS, answered {gain: 1.0,
\* mediaCount: 2}.
C10_Witness ==
  /\ Handled("GET_STATUS")
  /\ lastSetGain = 0
  /\ startupBindable = Media
  /\ req.responses = <<[gain |-> UnityGain, mediaCount |-> 2]>>

\* This step is a discovery: the startup scan or the observer callback.
DiscoveryStep == CallbackStep \/ (pc = "load" /\ pc' = "observe")

\* The media a discovery step presents: the document's at the scan, the
\* records' in the callback.
Presented ==
  IF pc = "load"
    THEN {m \in Media : InDocument(attached, m)}
    ELSE NotifiedMedia(attached, records)

\* Elements whose bind was tried and failed.
Failed == bindTried \ Registered

\* C11: a discovery that presents an unbindable element completes; that element
\* is not registered and the count does not grow for it, every other element of
\* the same batch is still registered, and SET_GAIN and GET_STATUS handled
\* after a failure get their one response with the registry's count.
C11_BindFailureContained ==
  [][/\ (DiscoveryStep /\ \E e \in Presented : Unbindable(e)) =>
          /\ \A e \in Presented : Unbindable(e) => e \notin DOMAIN mediaElements'
          /\ \A m \in Presented : ~Unbindable(m) => m \in DOMAIN mediaElements'
          /\ DOMAIN mediaElements' =
               Registered \cup {m \in Presented : ~Unbindable(m)}
     /\ ((Handling("SET_GAIN") \/ Handling("GET_STATUS")) /\ Failed # {}) =>
          /\ Len(req'.responses) = 1
          /\ req'.responses[1].mediaCount = Cardinality(DOMAIN mediaElements')]_vars

\* C11 witness: at the startup scan the video failed to bind and the audio
\* nested in it was registered all the same; GET_STATUS then answered
\* {gain: 1.0, mediaCount: 1}.
C11_Witness ==
  /\ startupBindable = {"a1"}
  /\ Failed = {"v1"}
  /\ Registered = {"a1"}
  /\ rediscovered = {}
  /\ Handled("GET_STATUS")
  /\ req.responses = <<[gain |-> UnityGain, mediaCount |-> 1]>>

C13_OnePipeline ==
  /\ contextsCreated <= 1
  /\ audioContext = contextsCreated
  /\ (contextsCreated = 1) <=> (bindTried # {})
  /\ (audioContext = 0) <=> (ctxState = "none")
  /\ \A e \in Registered : mediaElements[e].context = audioContext
  /\ Registered # {} => audioContext # 0

\* C13 witness: two chains built by separate discoveries (the second after
\* the first was presented again) share the one context.
C13_Witness ==
  /\ Registered = Media
  /\ contextsCreated = 1
  /\ rediscovered = {"v1"}
  /\ \A e \in Registered : mediaElements[e].context = 1

\* This step passes e to createMediaElementSource and the bind fails.
FailedBuildOf(e) ==
  /\ Unbindable(e)
  /\ \/ e \in bindTried' /\ e \notin bindTried
     \/ e \in bindRetried' /\ e \notin bindRetried

\* C15: a discovery step in which the only builds are failed ones leaves the
\* registry, the gain state and the context (also whether one exists) as they
\* were, also when the failing element is the first ever processed.
C15_FailedBuildNoSideEffect ==
  [][(/\ DiscoveryStep
      /\ \E e \in Presented : FailedBuildOf(e)
      /\ \A m \in Presented : Unbindable(m) \/ m \in Registered) =>
       UNCHANGED <<mediaElements, gainValue, audioContext, ctxState,
                   resumeRequested, contextsCreated>>]_vars

\* C16: no element is passed to createMediaElementSource more than once,
\* whether its bind succeeded or failed, however often it is discovered.
C16_BindAttemptedAtMostOnce == bindRetried = {}

\* C17: an element whose bind has failed, or that another audio graph holds, is
\* in the registry after no step: it never gets a chain, so no SET_GAIN ever
\* sets a gain for it.
C17_FailedNeverRegistered ==
  [][\A e \in Media :
       (e \in Failed \/ Unbindable(e)) =>
         /\ e \notin DOMAIN mediaElements'
         /\ e \in captured']_vars

\* C17 witness: the video failed to bind, twice, and is not registered; the
\* audio is, and SET_GAIN(3.0) answered mediaCount 1.
C17_Witness ==
  /\ "v1" \in bindRetried
  /\ Registered = {"a1"}
  /\ Handled("SET_GAIN")
  /\ req.message.value = 300
  /\ req.responses[1].mediaCount = 1
  /\ mediaElements["a1"].gain = 300

\* C18: the gain state is 1.0 at startup, changes only in a step that handles
\* SET_GAIN, and so equals the value of the SET_GAIN handled last (1.0 if none)
\* before and after every step.
C18_GainStateOnlySetGain ==
  [][/\ gainValue' # gainValue => Handling("SET_GAIN")
     /\ pc = "load" /\ lastSetGain = 0 => gainValue = UnityGain
     /\ gainValue = LastRequestedGain
     /\ gainValue' = IF lastSetGain' = 0 THEN UnityGain ELSE lastSetGain']_vars

\* C18 witness: after SET_GAIN(0.5) the context was created by a discovery
\* whose bind failed, was resumed, GET_STATUS was handled, and the gain state
\* is still 0.5.
C18_Witness ==
  /\ lastSetGain = 50
  /\ gainValue = 50
  /\ Handled("GET_STATUS")
  /\ Failed # {}
  /\ Registered # {}
  /\ ctxState = "running"

\* C20: in every state between handlers the gain stage of every registered
\* chain equals the gain state, whether the chain was built before or after
\* the last SET_GAIN.
C20_ChainsFollowGainState ==
  \A e \in Registered : mediaElements[e].gain = gainValue

\* C20 witness: SET_GAIN(0.5) answered mediaCount 1, a second chain was built
\* since, and both chains are at 0.5 with the context still suspended.
C20_Witness ==
  /\ Handled("SET_GAIN")
  /\ req.message.value = 50
  /\ req.responses[1].mediaCount = 1
  /\ Registered = Media
  /\ ctxState = "suspended"
  /\ \A e \in Registered : mediaElements[e].gain = 50
\* C19: no step takes an element out of the registry or gives it another chain
\* (also not the removal of the element from the page), and the mediaCount of
\* each response is at least the mediaCount of the response before it.
C19_RegistryOnlyGrows ==
  [][/\ \A e \in Registered :
          /\ e \in DOMAIN mediaElements'
          /\ mediaElements'[e].id = mediaElements[e].id
          /\ mediaElements'[e].context = mediaElements[e].context
     /\ lastCount <= lastCount'
     /\ lastCount <= Cardinality(Registered)]_vars

\* C19 witness: the last response reported 1, a second chain was built since,
\* a registered element was then removed from the page, and both are still
\* registered, so the next response reports 2.
C19_Witness ==
  /\ lastCount = 1
  /\ Cardinality(Registered) = 2
  /\ \E e \in Registered : ~InDocument(attached, e)
  /\ req.state = "sent"
\* C14: for each tabs.onUpdated event the service worker sends at most one
\* SET_GAIN; it sends none when the update is not a completed load of a url
\* whose hostname has a record in domainSettings; when there is a record
\* {volume: p} the listener goes on to send, the value it sends is p / 100, and
\* the gain state is that value once the content script has handled it.
C14_SetGainOnlyForSavedHostname ==
  /\ \A i \in DOMAIN updates :
       LET u == updates[i]
           load == u.status = "complete" /\ u.url \in DOMAIN hostname
           saved == load /\ hostname[u.url] \in DOMAIN domainSettings
       IN /\ u.sends <= 1
          /\ ~saved => u.sends = 0
          /\ saved => u.stage \in {"get", "timer", "sent"}
          /\ saved /\ u.sends = 1 =>
               /\ ~u.gainValue[1].isNaN
               /\ 100 * u.gainValue[1].n
                    = UnityGain * domainSettings[hostname[u.url]].volume
  /\ Handled("SET_GAIN") => gainValue = req.message.value
\* The record of a hostname in a stored object, as a sequence of none or one.
Rec(obj, d) == IF d \in DOMAIN obj THEN <<obj[d]>> ELSE <<>>

\* C21: a saveSettings call of a popup on hostname A makes A's record
\* {volume: slider} when the checkbox is checked and no record when it is not,
\* stores that, and its write leaves the record of every other hostname as it
\* was, also when another saveSettings call reads or writes in between.
C21_SaveSettingsOnlyOwnRecord ==
  [][\A i \in DOMAIN saves :
       LET popup == popups[saves[i].popup]
           A == popup.currentDomain
       IN /\ saves[i].stage = "get" /\ saves'[i].stage = "set" =>
               Rec(saves'[i].domainSettings, A) =
                 IF popup.checked THEN <<[volume |-> popup.slider]>> ELSE <<>>
          /\ saves[i].stage = "set" /\ saves'[i].stage = "done" =>
               /\ Rec(domainSettings', A) = Rec(saves[i].domainSettings, A)
               /\ \A B \in SavedDomains \ {A} :
                    Rec(domainSettings', B) = Rec(domainSettings, B)]_vars
====
